---- MODULE Spec2Model ----
(***************************************************************************)
(* Model of the concurrent fetch-and-retry pipeline of                     *)
(* dataset/dataset_script_mulio_fail_retry.py: the Fetcher (fetch_json),   *)
(* the resolvers (get_repo_info, get_readme), the Processor (process_repo) *)
(* and the retry-round Scheduler (main) with its worker pool, the three    *)
(* durable log files and the process being killed and started again.       *)
(***************************************************************************)
EXTENDS Integers, Sequences, FiniteSets, Bags, TLC

VARIABLES
    input,              \* rows of CSV_FILE, as csv.DictReader yields them
    outputFile,         \* lines of OUTPUT_FILE
    successFile,        \* lines of SUCCESS_FILE
    failedFile,         \* lines of FAILED_FILE
    mainpc,             \* position of the main thread
    success_repo_ids,   \* main's in-memory set, shared with the workers
    repos_to_process,   \* main's work list of the current round
    failed_next_round,  \* main's list of the items that failed this round
    tpc,                \* position of each submitted process_repo call
    tres,               \* the record each process_repo call has built
    file_lock,          \* 0 when free, else the index of the holding call
    csBase,             \* lengths of the three files when file_lock was taken
    round,              \* number of the current round (saturates at MaxRounds)
    prevIds,            \* repo_ids dispatched in the previous round of this run
    run,                \* how many times main has been started
    startIds,           \* repo_ids in the success-index when this run started
    startLens,          \* lengths of output log and success-index at that time
    prevNormal,         \* whether the previous run ended by reaching the end of main
    startWork,          \* repo_ids of the work list this run started with
    p_pc,               \* position of the process_repo call followed in detail
    p_info,             \* what its get_repo_info call returned
    p_readme,           \* what its get_readme call returned
    f_retry,            \* retry argument of the running fetch_json frame
    f_trace,            \* kind of outcome of every requests.get of the running fetch_json call
    f_last,             \* the outcome of the latest of them
    f_sleeps,           \* durations of its time.sleep calls, in order
    f_ret,              \* what the fetch_json call returned
    repositories,       \* the list analyze_dataset is called with
    a_pc,               \* position of the analyze_dataset call
    stats,              \* its stats dict
    all_topics,         \* its list all_topics
    topics_per_repo     \* its list topics_per_repo

vars == <<input, outputFile, successFile, failedFile, mainpc, success_repo_ids,
          repos_to_process, failed_next_round, tpc, tres, file_lock, csBase,
          round, prevIds, run, startIds, startLens, prevNormal,
          p_pc, p_info, p_readme, f_retry, f_trace, f_last, f_sleeps, f_ret,
          startWork, repositories, a_pc, stats, all_topics, topics_per_repo>>

files == <<outputFile, successFile, failedFile>>
fetcher == <<f_retry, f_trace, f_last, f_sleeps, f_ret>>
detail == <<p_pc, p_info, p_readme, fetcher>>
sched == <<mainpc, success_repo_ids, repos_to_process, failed_next_round,
           round, run>>
analysis == <<repositories, a_pc, stats, all_topics, topics_per_repo>>
ghost == <<prevIds, startIds, startLens, prevNormal, detail, startWork, analysis>>

----------------------------------------------------------------------------
(* Bounds of the model and constants of the program *)

MaxInput == 2
MaxRounds == 3
MaxRuns == 2

StartTime == 100

MAX_WORKERS == 10
RETRY_LIMIT == 3

RepoIds == {"1", "2"}
None == "null"
NoResult == [none |-> TRUE]

\* A row of the input: repo_name and total_openrank are fixed per repo_id.
Row(id) == [repo_id |-> id, repo_name |-> "o/r" \o id, total_openrank |-> "5.0"]

RECURSIVE SeqsUpTo(_, _)
SeqsUpTo(S, n) ==
    IF n = 0 THEN {<<>>}
    ELSE LET shorter == SeqsUpTo(S, n - 1)
         IN shorter \cup {Append(s, x) : s \in {q \in shorter : Len(q) = n - 1}, x \in S}

Inputs == {[k \in 1..Len(s) |-> Row(s[k])] : s \in SeqsUpTo(RepoIds, MaxInput)}

Range(s) == {s[k] : k \in 1..Len(s)}
Ids(s) == {s[k].repo_id : k \in 1..Len(s)}

----------------------------------------------------------------------------
(* Resolver results as process_repo sees them *)

InfoOk == [description |-> "d", homepage_url |-> None, topics |-> <<"x", "y">>]
ReadmeOk == [text |-> "hi"]
Err(reason) == [_error |-> reason]

\* The results the calls of the scheduler model draw from: main reads only
\* success, so one success and one failure; ProcSpec below goes through fetch_json
\* and the resolvers outcome by outcome.
InfoResults == {InfoOk, Err("status_500")}
ReadmeResults == {Err("not_found")}

\* process_repo without the test of line 118: any readme error is a failure.
ProcessResultStrict(row, info, readme_data) ==
    LET infoErr == "_error" \in DOMAIN info
        info2 == IF infoErr
                 THEN [description |-> None, homepage_url |-> None, topics |-> <<>>]
                 ELSE info
        rdErr == "_error" \in DOMAIN readme_data
    IN [repo_id |-> row.repo_id,
        repo_name |-> row.repo_name,
        total_openrank |-> row.total_openrank,
        description |-> info2.description,
        homepage_url |-> info2.homepage_url,
        topics |-> info2.topics,
        readme_text |-> IF rdErr THEN None ELSE readme_data.text,
        success |-> IF rdErr THEN FALSE ELSE ~infoErr,
        fail_reason |-> IF rdErr THEN readme_data._error
                        ELSE IF infoErr THEN info._error ELSE None]

\* process_repo, lines 103-135: the record built from the two resolutions.
ProcessResult(row, info, readme_data) ==
    LET infoErr == "_error" \in DOMAIN info
        info2 == IF infoErr
                 THEN [description |-> None, homepage_url |-> None, topics |-> <<>>]
                 ELSE info
        rdErr == "_error" \in DOMAIN readme_data
        fatal == rdErr /\ readme_data._error # "not_found"
    IN [repo_id |-> row.repo_id,
        repo_name |-> row.repo_name,
        total_openrank |-> row.total_openrank,
        description |-> info2.description,
        homepage_url |-> info2.homepage_url,
        topics |-> info2.topics,
        readme_text |-> IF rdErr THEN None ELSE readme_data.text,
        success |-> IF fatal THEN FALSE ELSE ~infoErr,
        fail_reason |-> IF fatal THEN readme_data._error
                        ELSE IF infoErr THEN info._error ELSE None]

----------------------------------------------------------------------------
(* main, lines 155-174 *)

\* dict insertion: a new key goes last, an existing key keeps its place and
\* takes the new value.
DictPut(d, row) ==
    IF row.repo_id \in Ids(d)
    THEN [k \in 1..Len(d) |-> IF d[k].repo_id = row.repo_id THEN row ELSE d[k]]
    ELSE Append(d, row)

RECURSIVE DictOf(_)
DictOf(rows) ==
    IF rows = <<>> THEN <<>>
    ELSE DictPut(DictOf(SubSeq(rows, 1, Len(rows) - 1)), rows[Len(rows)])

\* MergeFailed without the test of line 168.
MergeFailedNoTest(d, rows) == d \o rows

\* lines 167-169: a failed-index row is added only under a key not yet there.
RECURSIVE MergeFailed(_, _)
MergeFailed(d, rows) ==
    IF rows = <<>> THEN d
    ELSE LET r == rows[1]
         IN MergeFailed(IF r.repo_id \in Ids(d) THEN d ELSE Append(d, r), Tail(rows))

\* lines 161-170 with every row of the input taken as pending
WorkListUnfiltered(all_rows, ids, failed) ==
    MergeFailed(DictOf(all_rows), failed)

\* lines 161-170
WorkList(all_rows, ids, failed) ==
    LET Pending(row) == row.repo_id \notin ids
    IN MergeFailed(DictOf(SelectSeq(all_rows, Pending)), failed)

\* data.py is not running.
NoAnalysis ==
    /\ repositories = <<>>
    /\ a_pc = "off"
    /\ stats = NoResult
    /\ all_topics = <<>>
    /\ topics_per_repo = <<>>

Init ==
    /\ input \in Inputs
    /\ outputFile = <<>>
    /\ successFile = <<>>
    /\ failedFile = <<>>
    /\ mainpc = "idle"
    /\ success_repo_ids = {}
    /\ repos_to_process = <<>>
    /\ failed_next_round = <<>>
    /\ startWork = {}
    /\ NoAnalysis
    /\ tpc = <<>>
    /\ tres = <<>>
    /\ file_lock = 0
    /\ csBase = <<0, 0, 0>>
    /\ round = 0
    /\ prevIds = {}
    /\ run = 0
    /\ startIds = {}
    /\ startLens = <<0, 0>>
    /\ prevNormal = FALSE
    /\ p_pc = "off"
    /\ p_info = NoResult
    /\ p_readme = NoResult
    /\ f_retry = 0
    /\ f_trace = <<>>
    /\ f_last = NoResult
    /\ f_sleeps = <<>>
    /\ f_ret = NoResult

\* The process is started (for the first time, after it ended, or after it
\* was killed) and runs lines 155-174: the failed-index is emptied.
MainInit ==
    /\ mainpc \in {"idle", "done", "killed"}
    /\ run < MaxRuns
    /\ run' = run + 1
    /\ success_repo_ids' = Ids(successFile)
    /\ repos_to_process' = WorkList(input, Ids(successFile), failedFile)
    /\ startWork' = Ids(WorkList(input, Ids(successFile), failedFile))
    /\ failedFile' = <<>>
    /\ failed_next_round' = <<>>
    /\ tpc' = <<>>
    /\ tres' = <<>>
    /\ file_lock' = 0
    /\ round' = 0
    /\ prevIds' = {}
    /\ startIds' = Ids(successFile)
    /\ startLens' = <<Len(outputFile), Len(successFile)>>
    /\ prevNormal' = (mainpc = "done")
    /\ mainpc' = "loop"
    /\ UNCHANGED <<input, outputFile, successFile, csBase, detail, analysis>>

----------------------------------------------------------------------------
(* main, lines 176-199, and the pool's process_repo calls, lines 103-151 *)

Tasks == 1..Len(tpc)
InPool == {"built", "locked", "wrote_out", "unlock"}
InCritical == {"locked", "wrote_out", "unlock"}
Lens == <<Len(outputFile), Len(successFile), Len(failedFile)>>
Item(result) == [repo_id |-> result.repo_id,
                 repo_name |-> result.repo_name,
                 total_openrank |-> result.total_openrank]
NextRound == IF round < MaxRounds THEN round + 1 ELSE round

\* line 176 and, when the list is not empty, lines 177-180: every row of the
\* list is submitted to the pool.
LoopTest ==
    /\ mainpc = "loop"
    /\ IF repos_to_process = <<>>
       THEN /\ mainpc' = "done"
            /\ UNCHANGED <<failed_next_round, tpc, tres, round>>
       ELSE /\ mainpc' = "collect"
            /\ failed_next_round' = <<>>
            /\ tpc' = [k \in 1..Len(repos_to_process) |-> "queued"]
            /\ tres' = [k \in 1..Len(repos_to_process) |-> NoResult]
            /\ round' = NextRound
    /\ UNCHANGED <<input, files, success_repo_ids, repos_to_process, file_lock,
                   csBase, run, ghost>>

\* A pool thread takes the oldest queued call (at most MAX_WORKERS run at a
\* time) and runs lines 104-135: both resolutions and the record.
Fetch(t) ==
    /\ mainpc = "collect"
    /\ tpc[t] = "queued"
    /\ \A u \in 1..(t - 1) : tpc[u] # "queued"
    /\ Cardinality({u \in Tasks : tpc[u] \in InPool}) < MAX_WORKERS
    /\ \E info \in InfoResults, readme_data \in ReadmeResults :
          tres' = [tres EXCEPT ![t] = ProcessResult(repos_to_process[t], info, readme_data)]
    /\ tpc' = [tpc EXCEPT ![t] = "built"]
    /\ UNCHANGED <<input, files, mainpc, success_repo_ids, repos_to_process,
                   failed_next_round, file_lock, csBase, round, run, ghost>>

\* A lock that never blocks.
LockNeverHeld == TRUE

\* line 137: with file_lock
LockFree == file_lock = 0

Acquire(t) ==
    /\ mainpc = "collect"
    /\ tpc[t] = "built"
    /\ LockFree
    /\ file_lock' = t
    /\ csBase' = Lens
    /\ tpc' = [tpc EXCEPT ![t] = "locked"]
    /\ UNCHANGED <<input, files, mainpc, success_repo_ids, repos_to_process,
                   failed_next_round, tres, round, run, ghost>>

\* lines 138-140 with OUTPUT_FILE opened in mode "w"
WriteOutputTruncating(t) ==
    /\ mainpc = "collect"
    /\ tpc[t] = "locked"
    /\ tres[t].success
    /\ outputFile' = <<tres[t]>>
    /\ tpc' = [tpc EXCEPT ![t] = "wrote_out"]
    /\ UNCHANGED <<input, successFile, failedFile, mainpc, success_repo_ids,
                   repos_to_process, failed_next_round, tres, file_lock, csBase,
                   round, run, ghost>>

\* lines 138-140
WriteOutput(t) ==
    /\ mainpc = "collect"
    /\ tpc[t] = "locked"
    /\ tres[t].success
    /\ outputFile' = Append(outputFile, tres[t])
    /\ tpc' = [tpc EXCEPT ![t] = "wrote_out"]
    /\ UNCHANGED <<input, successFile, failedFile, mainpc, success_repo_ids,
                   repos_to_process, failed_next_round, tres, file_lock, csBase,
                   round, run, ghost>>

\* line 141 without the membership test
NeedsIndexEntryAlways(repo_id, ids) == TRUE

\* line 141
NeedsIndexEntry(repo_id, ids) == repo_id \notin ids

\* lines 141-144 without success_repo_ids.add(repo_id) of line 144
WriteSuccessForgets(t) ==
    /\ mainpc = "collect"
    /\ tpc[t] = "wrote_out"
    /\ IF NeedsIndexEntry(tres[t].repo_id, success_repo_ids)
       THEN successFile' = Append(successFile,
                [repo_id |-> tres[t].repo_id, repo_name |-> tres[t].repo_name])
       ELSE UNCHANGED successFile
    /\ tpc' = [tpc EXCEPT ![t] = "unlock"]
    /\ UNCHANGED <<input, outputFile, failedFile, mainpc, success_repo_ids,
                   repos_to_process, failed_next_round, tres, file_lock, csBase,
                   round, run, ghost>>

\* lines 141-144
WriteSuccess(t) ==
    /\ mainpc = "collect"
    /\ tpc[t] = "wrote_out"
    /\ IF NeedsIndexEntry(tres[t].repo_id, success_repo_ids)
       THEN /\ successFile' = Append(successFile,
                   [repo_id |-> tres[t].repo_id, repo_name |-> tres[t].repo_name])
            /\ success_repo_ids' = success_repo_ids \cup {tres[t].repo_id}
       ELSE UNCHANGED <<successFile, success_repo_ids>>
    /\ tpc' = [tpc EXCEPT ![t] = "unlock"]
    /\ UNCHANGED <<input, outputFile, failedFile, mainpc, repos_to_process,
                   failed_next_round, tres, file_lock, csBase, round, run, ghost>>

\* lines 145-147 run whatever success is (an if in place of the else)
WriteFailedAlways(t) ==
    /\ mainpc = "collect"
    /\ tpc[t] = "locked"
    /\ failedFile' = Append(failedFile, tres[t])
    /\ tpc' = [tpc EXCEPT ![t] = "unlock"]
    /\ UNCHANGED <<input, outputFile, successFile, mainpc, success_repo_ids,
                   repos_to_process, failed_next_round, tres, file_lock, csBase,
                   round, run, ghost>>

\* lines 145-147
WriteFailed(t) ==
    /\ mainpc = "collect"
    /\ tpc[t] = "locked"
    /\ ~tres[t].success
    /\ failedFile' = Append(failedFile, tres[t])
    /\ tpc' = [tpc EXCEPT ![t] = "unlock"]
    /\ UNCHANGED <<input, outputFile, successFile, mainpc, success_repo_ids,
                   repos_to_process, failed_next_round, tres, file_lock, csBase,
                   round, run, ghost>>

\* the end of the with block of line 137, then lines 149-151
Release(t) ==
    /\ mainpc = "collect"
    /\ tpc[t] = "unlock"
    /\ file_lock' = 0
    /\ csBase' = <<0, 0, 0>>
    /\ tpc' = [tpc EXCEPT ![t] = "finished"]
    /\ UNCHANGED <<input, files, mainpc, success_repo_ids, repos_to_process,
                   failed_next_round, tres, round, run, ghost>>

\* lines 182-189 without the append of lines 185-189
CollectForgets(t) ==
    /\ mainpc = "collect"
    /\ tpc[t] = "finished"
    /\ tpc' = [tpc EXCEPT ![t] = "collected"]
    /\ UNCHANGED <<input, files, mainpc, success_repo_ids, repos_to_process,
                   failed_next_round, tres, file_lock, csBase, round, run, ghost>>

\* lines 182-189 without the test of line 184
CollectAll(t) ==
    /\ mainpc = "collect"
    /\ tpc[t] = "finished"
    /\ tpc' = [tpc EXCEPT ![t] = "collected"]
    /\ failed_next_round' = Append(failed_next_round, Item(tres[t]))
    /\ UNCHANGED <<input, files, mainpc, success_repo_ids, repos_to_process,
                   tres, file_lock, csBase, round, run, ghost>>

\* lines 182-189: as_completed yields a finished call, in completion order
Collect(t) ==
    /\ mainpc = "collect"
    /\ tpc[t] = "finished"
    /\ tpc' = [tpc EXCEPT ![t] = "collected"]
    /\ failed_next_round' = IF tres[t].success THEN failed_next_round
                            ELSE Append(failed_next_round, Item(tres[t]))
    /\ UNCHANGED <<input, files, mainpc, success_repo_ids, repos_to_process,
                   tres, file_lock, csBase, round, run, ghost>>

\* the loop of line 182 left at the first completed call
PoolDrainedEarly == \E t \in Tasks : tpc[t] = "collected"

\* the loop of line 182 ends and the with block of line 179 is left
PoolDrained == \A t \in Tasks : tpc[t] = "collected"

ExitPool ==
    /\ mainpc = "collect"
    /\ PoolDrained
    /\ mainpc' = "transition"
    /\ UNCHANGED <<input, files, success_repo_ids, repos_to_process,
                   failed_next_round, tpc, tres, file_lock, csBase, round, run, ghost>>

\* line 191 with a ceiling on the number of rounds
RetryNeededBounded(failed) == failed # <<>> /\ round < RETRY_LIMIT

\* line 191
RetryNeeded(failed) == failed # <<>>

\* lines 191-197
Transition ==
    /\ mainpc = "transition"
    /\ IF RetryNeeded(failed_next_round)
       THEN /\ failedFile' = failed_next_round
            /\ repos_to_process' = failed_next_round
            /\ prevIds' = Ids(repos_to_process)
            /\ mainpc' = "loop"
       ELSE /\ mainpc' = "done"
            /\ UNCHANGED <<failedFile, repos_to_process, prevIds>>
    /\ tpc' = <<>>
    /\ tres' = <<>>
    /\ UNCHANGED <<input, outputFile, successFile, success_repo_ids,
                   failed_next_round, file_lock, csBase, round, run,
                   startIds, startLens, prevNormal, detail, startWork,
                   analysis>>

\* The process is killed: the memory is lost, the files stay as they are.
Kill ==
    /\ mainpc \in {"loop", "collect", "transition"}
    /\ mainpc' = "killed"
    /\ success_repo_ids' = {}
    /\ repos_to_process' = <<>>
    /\ failed_next_round' = <<>>
    /\ tpc' = <<>>
    /\ tres' = <<>>
    /\ file_lock' = 0
    /\ csBase' = <<0, 0, 0>>
    /\ round' = 0
    /\ prevIds' = {}
    /\ startWork' = {}
    /\ UNCHANGED <<input, files, run, startIds, startLens, prevNormal, detail,
                   analysis>>

Worker(t) ==
    \/ Fetch(t)
    \/ Acquire(t)
    \/ WriteOutput(t)
    \/ WriteSuccess(t)
    \/ WriteFailed(t)
    \/ Release(t)

RunStep ==
    \/ LoopTest
    \/ \E t \in Tasks : Worker(t)
    \/ \E t \in Tasks : Collect(t)
    \/ ExitPool
    \/ Transition

Next ==
    \/ MainInit
    \/ RunStep
    \/ Kill

Spec == Init /\ [][Next]_vars

\* While the process lives, its threads keep being scheduled; nothing obliges
\* anyone to kill the process or to start it again.
FairSpec == Init /\ [][Next]_vars /\ WF_vars(RunStep)

TypeOK ==
    /\ mainpc \in {"idle", "loop", "collect", "transition", "done", "killed"}
    /\ file_lock \in 0..MaxInput
    /\ Len(tpc) = Len(tres)

----------------------------------------------------------------------------
(* One process_repo call in detail: fetch_json (lines 36-60), get_repo_info
   (lines 62-71), get_readme (lines 74-87) *)

\* Python values that r.json() can yield, and the dict fetch_json builds.
PyDict(d) == [type |-> "dict", val |-> d]
PyList(l) == [type |-> "list", val |-> l]
PyNone == [type |-> "none", val |-> None]
NotJson == [type |-> "invalid", val |-> None]
EmptyDict == [k \in {} |-> None]

Bodies == {
    PyDict([description |-> "d", homepage |-> None, topics |-> <<"x", "y">>]),
    PyDict([description |-> "d"]),
    PyDict([content |-> "aGk="]),
    PyDict([content |-> "abc"]),
    PyDict([content |-> None]),
    PyDict(EmptyDict),
    PyList(<<"x">>),
    PyNone,
    NotJson }

ExcTypes == {"ConnectionError"}
LimitedStatuses == {403, 429}
OtherStatuses == {500}
Remainings == {None, "0", "1"}
Resets(now) == {None, "", "soon", ToString(now - 20), ToString(now + 2), ToString(now + 30)}

\* bool(x)
Truthy(data) ==
    CASE data.type = "dict" -> DOMAIN data.val # {}
      [] data.type = "list" -> data.val # <<>>
      [] OTHER -> FALSE

\* key in x
In(key, data) ==
    CASE data.type = "dict" -> key \in DOMAIN data.val
      [] data.type = "list" -> key \in Range(data.val)
      [] OTHER -> FALSE

\* dict.get(key, default)
Get(d, key, default) == IF key \in DOMAIN d THEN d[key] ELSE default

\* int(s), which raises ValueError unless s is a numeral
Numerals == {ToString(n) : n \in 0..(StartTime + 200)}
IsNumeral(s) == s \in Numerals
ParseInt(s) == CHOOSE n \in 0..(StartTime + 200) : ToString(n) = s

\* base64.b64decode(content).decode("utf-8", errors="ignore")
B64Decode(content) ==
    CASE content = "aGk=" -> [text |-> "hi"]
      [] content = None -> [raised |-> "TypeError"]
      [] OTHER -> [raised |-> "Error"]

Max(a, b) == IF a >= b THEN a ELSE b

RECURSIVE Sum(_)
Sum(s) == IF s = <<>> THEN 0 ELSE s[1] + Sum(Tail(s))

\* int(time.time()): the call starts at StartTime and time passes in its sleeps
Now == StartTime + Sum(f_sleeps)
Fetching == p_pc \in {"info", "readme"} /\ f_ret = NoResult

\* lines 50 and 57 with <= in place of <
CanRetryOnceMore(retry) == retry <= RETRY_LIMIT

\* lines 50 and 57
CanRetry(retry) == retry < RETRY_LIMIT

\* lines 51-52 and 58-59 calling fetch_json(url, headers, retry)
BackoffKeepsCount ==
    /\ f_sleeps' = Append(f_sleeps, 2 ^ f_retry)
    /\ UNCHANGED <<f_retry, f_ret>>

\* lines 51-52 and 58-59: back off, then the recursive call
Backoff ==
    /\ f_sleeps' = Append(f_sleeps, 2 ^ f_retry)
    /\ f_retry' = f_retry + 1
    /\ UNCHANGED f_ret

Return(value) ==
    /\ f_ret' = value
    /\ UNCHANGED <<f_retry, f_sleeps>>

\* lines 56-60: an exception inside the try block
Except(type, msg) ==
    /\ f_trace' = Append(f_trace, "exception")
    /\ f_last' = [kind |-> "exception", code |-> type, msg |-> msg]
    /\ IF CanRetry(f_retry)
       THEN Backoff
       ELSE Return(PyDict(Err("exception_" \o type \o ": " \o msg)))

Responded(code) ==
    /\ f_trace' = Append(f_trace, CASE code = 200 -> "ok"
                                    [] code = 404 -> "not_found"
                                    [] code \in LimitedStatuses -> "limited"
                                    [] OTHER -> "other")
    /\ f_last' = [kind |-> "http", code |-> ToString(code), msg |-> ""]

OnlyFetcher == UNCHANGED <<input, files, sched, tpc, tres, file_lock, csBase,
                           prevIds, startIds, startLens, prevNormal,
                           p_pc, p_info, p_readme, startWork, analysis>>

\* line 38 raises
AttemptRaises ==
    /\ Fetching
    /\ \E type \in ExcTypes : Except(type, "m")
    /\ OnlyFetcher

\* lines 39-40
Attempt200 ==
    /\ Fetching
    /\ \E body \in Bodies :
          IF body = NotJson
          THEN Except("JSONDecodeError", "m")
          ELSE Responded(200) /\ Return(body)
    /\ OnlyFetcher

\* line 41 taken as one more transient outcome
Attempt404Retried ==
    /\ Fetching
    /\ Responded(404)
    /\ IF CanRetry(f_retry) THEN Backoff ELSE Return(PyDict(Err("not_found")))
    /\ OnlyFetcher

\* lines 41-42
Attempt404 ==
    /\ Fetching
    /\ Responded(404)
    /\ Return(PyDict(Err("not_found")))
    /\ OnlyFetcher

\* lines 47 and 49 with time.sleep(sleep_time)
RateLimitSleepNoFloor(reset, now) == ParseInt(reset) - now + 5

\* lines 47 and 49
RateLimitSleep(reset, now) == Max(ParseInt(reset) - now + 5, 10)

\* lines 43-53
AttemptLimited ==
    /\ Fetching
    /\ \E code \in LimitedStatuses, remaining \in Remainings, reset \in Resets(Now) :
          LET tag == PyDict(Err("rate_limit_or_forbidden_" \o ToString(code)))
          IN IF remaining = "0" /\ reset \notin {None, ""}
             THEN IF IsNumeral(reset)
                  THEN /\ f_trace' = Append(f_trace, "exhausted")
                       /\ f_last' = [kind |-> "http", code |-> ToString(code),
                                     msg |-> "", reset |-> reset]
                       /\ f_sleeps' = Append(f_sleeps, RateLimitSleep(reset, Now))
                       /\ f_ret' = tag
                       /\ UNCHANGED f_retry
                  ELSE Except("ValueError", "m")
             ELSE /\ Responded(code)
                  /\ IF CanRetry(f_retry) THEN Backoff ELSE Return(tag)
    /\ OnlyFetcher

\* lines 54-55
AttemptOther ==
    /\ Fetching
    /\ \E code \in OtherStatuses :
          /\ Responded(code)
          /\ Return(PyDict(Err("status_" \o ToString(code))))
    /\ OnlyFetcher

\* get_repo_info, lines 65-71; data.get of a list raises AttributeError
GetRepoInfo(data) ==
    IF ~Truthy(data) THEN Err("unknown_error")
    ELSE IF data.type # "dict" THEN [raised |-> "AttributeError"]
    ELSE IF In("_error", data) THEN Err(data.val._error)
    ELSE [description |-> Get(data.val, "description", None),
          homepage_url |-> Get(data.val, "homepage", None),
          topics |-> Get(data.val, "topics", <<>>)]

\* get_readme, lines 77-87; a list index that is not an integer raises
\* TypeError, outside the try block at line 80 and inside it at line 84
GetReadme(data) ==
    IF ~Truthy(data) THEN Err("no_response")
    ELSE IF In("_error", data)
         THEN IF data.type = "dict" THEN Err(data.val._error)
              ELSE [raised |-> "TypeError"]
    ELSE IF ~In("content", data) THEN Err("no_content_field")
    ELSE LET decoded == IF data.type = "dict" THEN B64Decode(data.val.content)
                        ELSE [raised |-> "TypeError"]
         IN IF "raised" \in DOMAIN decoded
            THEN Err("decode_error_" \o decoded.raised)
            ELSE decoded

FreshFetch ==
    /\ f_retry' = 0
    /\ f_trace' = <<>>
    /\ f_last' = NoResult
    /\ f_sleeps' = <<>>
    /\ f_ret' = NoResult

OnlyDetail == UNCHANGED <<input, files, sched, tres, file_lock, csBase,
                          prevIds, startIds, startLens, prevNormal,
                          startWork, analysis>>

\* a pool thread starts the call: line 109 calls get_repo_info, line 64 fetch_json
StartCall ==
    /\ mainpc = "collect"
    /\ p_pc = "off"
    /\ tpc = <<"queued">>
    /\ tpc' = <<"fetching">>
    /\ p_pc' = "info"
    /\ FreshFetch
    /\ UNCHANGED <<p_info, p_readme>>
    /\ OnlyDetail

\* lines 65-71 and 109; then line 115 calls get_readme, line 76 fetch_json
ReturnInfo ==
    /\ p_pc = "info"
    /\ f_ret # NoResult
    /\ p_info' = GetRepoInfo(f_ret)
    /\ IF "raised" \in DOMAIN GetRepoInfo(f_ret)
       THEN /\ p_pc' = "raised"
            /\ tpc' = <<"raised">>
            /\ UNCHANGED fetcher
       ELSE /\ p_pc' = "readme"
            /\ FreshFetch
            /\ UNCHANGED tpc
    /\ UNCHANGED p_readme
    /\ OnlyDetail

\* lines 77-87 and 115-135
ReturnReadme ==
    /\ p_pc = "readme"
    /\ f_ret # NoResult
    /\ p_readme' = GetReadme(f_ret)
    /\ IF "raised" \in DOMAIN GetReadme(f_ret)
       THEN /\ p_pc' = "raised"
            /\ tpc' = <<"raised">>
            /\ UNCHANGED tres
       ELSE /\ p_pc' = "built"
            /\ tpc' = <<"built">>
            /\ tres' = <<ProcessResult(repos_to_process[1], p_info, GetReadme(f_ret))>>
    /\ UNCHANGED <<input, files, sched, file_lock, csBase, prevIds, startIds,
                   startLens, prevNormal, p_info, fetcher, startWork,
                   analysis>>

\* One call submitted by a round of main, for a repo_id that is or is not yet
\* in success_repo_ids.
ProcInit ==
    /\ input = <<Row("1")>>
    /\ \E ids \in {{}, {"1"}} :
          /\ success_repo_ids = ids
          /\ startIds = ids
          /\ successFile = IF ids = {} THEN <<>>
                           ELSE <<[repo_id |-> "1", repo_name |-> Row("1").repo_name]>>
          /\ startLens = <<0, Len(successFile)>>
    /\ outputFile = <<>>
    /\ failedFile = <<>>
    /\ mainpc = "collect"
    /\ repos_to_process = input
    /\ failed_next_round = <<>>
    /\ startWork = {"1"}
    /\ NoAnalysis
    /\ tpc = <<"queued">>
    /\ tres = <<NoResult>>
    /\ file_lock = 0
    /\ csBase = <<0, 0, 0>>
    /\ round = 1
    /\ prevIds = {}
    /\ run = 1
    /\ prevNormal = FALSE
    /\ p_pc = "off"
    /\ p_info = NoResult
    /\ p_readme = NoResult
    /\ f_retry = 0
    /\ f_trace = <<>>
    /\ f_last = NoResult
    /\ f_sleeps = <<>>
    /\ f_ret = NoResult

ProcNext ==
    \/ StartCall
    \/ AttemptRaises
    \/ Attempt200
    \/ Attempt404
    \/ AttemptLimited
    \/ AttemptOther
    \/ ReturnInfo
    \/ ReturnReadme
    \/ Acquire(1)
    \/ WriteOutput(1)
    \/ WriteSuccess(1)
    \/ WriteFailed(1)
    \/ Release(1)

ProcSpec == ProcInit /\ [][ProcNext]_vars

----------------------------------------------------------------------------
(* src/data/data.py: parse_topics (lines 30-47) and analyze_dataset (lines
   49-145). Of the stats dict, avg_topics_per_repo, top_topics and
   sample_repositories are left out: they are written once from the fields
   below (the last two in the iteration order of a set) and never read. *)

MaxRepos == 3

\* float('inf'), line 65: above every number of topics
Inf == 999

\* A record of the data file, with its keys a.description, a.readme_text and
\* a.topics.
Repo(description, readme_text, topics) ==
    [description |-> description, readme_text |-> readme_text, topics |-> topics]

Records == {
    Repo("d", "r", "['a', 'b']"),
    Repo("d", "", "['a']"),
    Repo("", "r", ""),
    Repo(" ", "r", "[]"),
    Repo("d", " ", "{'b'}"),
    Repo("d", "r", "['b', 'b']"),
    Repo("", "", "a b"),
    Repo("d", "r", "'c'") }

\* ast.literal_eval, line 37
LiteralEval(s) ==
    CASE s = "[]" -> [type |-> "list", val |-> <<>>]
      [] s = "['a']" -> [type |-> "list", val |-> <<"a">>]
      [] s = "['a', 'b']" -> [type |-> "list", val |-> <<"a", "b">>]
      [] s = "['b', 'b']" -> [type |-> "list", val |-> <<"b", "b">>]
      [] s = "{'b'}" -> [type |-> "set", val |-> {"b"}]
      [] s = "'c'" -> [type |-> "str", val |-> "c"]
      [] OTHER -> [type |-> "raised", val |-> "SyntaxError"]

\* lines 32-47
parse_topics(topics_str) ==
    IF topics_str = "" THEN {}
    ELSE LET topics == LiteralEval(topics_str)
         IN CASE topics.type = "raised" -> {}
              [] topics.type = "set" -> topics.val
              [] topics.type = "list" -> Range(topics.val)
              [] OTHER -> {topics.val}

\* x and x.strip()
NotBlank(x) == x \notin {"", " "}

\* counter[key] += 1
Incr(counter, key) ==
    [k \in DOMAIN counter \cup {key} |->
        (IF k \in DOMAIN counter THEN counter[k] ELSE 0) + (IF k = key THEN 1 ELSE 0)]

\* lines 115-116 counting a topic only the first time it is met
CountTopicsOnce(frequency, topics) ==
    [t \in DOMAIN frequency \cup topics |-> 1]

\* lines 115-116
CountTopics(frequency, topics) ==
    [t \in DOMAIN frequency \cup topics |->
        (IF t \in DOMAIN frequency THEN frequency[t] ELSE 0) + (IF t \in topics THEN 1 ELSE 0)]

Min(a, b) == IF a <= b THEN a ELSE b

\* lines 51-69
InitialStats ==
    [total_repositories |-> 0,
     repositories_with_topics |-> 0,
     repositories_without_topics |-> 0,
     total_topic_occurrences |-> 0,
     unique_topics |-> {},
     topic_frequency |-> EmptyDict,
     repositories_with_description |-> 0,
     repositories_with_readme |-> 0,
     repositories_with_both_desc_readme |-> 0,
     empty_descriptions |-> 0,
     empty_readmes |-> 0,
     max_topics_per_repo |-> 0,
     min_topics_per_repo |-> Inf,
     repos_by_topic_count |-> EmptyDict]

program == <<input, files, sched, tpc, tres, file_lock, csBase, prevIds,
             startIds, startLens, prevNormal, startWork, detail>>

\* lines 74-118: one iteration of the loop
AnalyzeRepo ==
    /\ a_pc = "loop"
    /\ stats.total_repositories < Len(repositories)
    /\ LET repo == repositories[stats.total_repositories + 1]
           desc == NotBlank(repo.description)
           readme == NotBlank(repo.readme_text)
           topics == parse_topics(repo.topics)
           topic_count == Cardinality(topics)
           basic == [stats EXCEPT
                        !.total_repositories = @ + 1,
                        !.repositories_with_description = IF desc THEN @ + 1 ELSE @,
                        !.empty_descriptions = IF desc THEN @ ELSE @ + 1,
                        !.repositories_with_readme = IF readme THEN @ + 1 ELSE @,
                        !.empty_readmes = IF readme THEN @ ELSE @ + 1,
                        !.repositories_with_both_desc_readme =
                            IF desc /\ readme THEN @ + 1 ELSE @]
       IN IF topics # {}
          THEN /\ stats' = [basic EXCEPT
                               !.repositories_with_topics = @ + 1,
                               !.repos_by_topic_count = Incr(@, topic_count),
                               !.max_topics_per_repo = Max(@, topic_count),
                               !.min_topics_per_repo = Min(@, topic_count),
                               !.unique_topics = @ \cup topics,
                               !.topic_frequency = CountTopics(@, topics)]
               /\ topics_per_repo' = Append(topics_per_repo, topic_count)
               /\ all_topics' = all_topics (+) SetToBag(topics)
          ELSE /\ stats' = [basic EXCEPT !.repositories_without_topics = @ + 1]
               /\ UNCHANGED <<topics_per_repo, all_topics>>
    /\ UNCHANGED <<program, repositories, a_pc>>

\* lines 130-145
Finish ==
    /\ a_pc = "loop"
    /\ stats.total_repositories = Len(repositories)
    /\ stats' = [stats EXCEPT
                    !.total_topic_occurrences = BagCardinality(all_topics),
                    !.min_topics_per_repo = IF @ = Inf THEN 0 ELSE @]
                 @@ [unique_topics_count |-> Cardinality(stats.unique_topics)]
    /\ a_pc' = "done"
    /\ UNCHANGED <<program, repositories, all_topics, topics_per_repo>>

\* analyze_dataset is called with a list of records; nothing else runs.
AnalyzeInit ==
    /\ repositories \in SeqsUpTo(Records, MaxRepos)
    /\ a_pc = "loop"
    /\ stats = InitialStats
    /\ all_topics = EmptyBag
    /\ topics_per_repo = <<>>
    /\ input = <<>>
    /\ outputFile = <<>>
    /\ successFile = <<>>
    /\ failedFile = <<>>
    /\ mainpc = "idle"
    /\ success_repo_ids = {}
    /\ repos_to_process = <<>>
    /\ failed_next_round = <<>>
    /\ tpc = <<>>
    /\ tres = <<>>
    /\ file_lock = 0
    /\ csBase = <<0, 0, 0>>
    /\ round = 0
    /\ prevIds = {}
    /\ run = 0
    /\ startIds = {}
    /\ startLens = <<0, 0>>
    /\ prevNormal = FALSE
    /\ startWork = {}
    /\ p_pc = "off"
    /\ p_info = NoResult
    /\ p_readme = NoResult
    /\ f_retry = 0
    /\ f_trace = <<>>
    /\ f_last = NoResult
    /\ f_sleeps = <<>>
    /\ f_ret = NoResult

AnalyzeNext ==
    \/ AnalyzeRepo
    \/ Finish

AnalyzeSpec == AnalyzeInit /\ [][AnalyzeNext]_vars

----------------------------------------------------------------------------
(* Claims *)

Running == mainpc \in {"loop", "collect", "transition"}
NoDupIds(s) == \A j, k \in 1..Len(s) : j # k => s[j].repo_id # s[k].repo_id
Last(s) == s[Len(s)]
NewOutput == {outputFile[k] : k \in (startLens[1] + 1)..Len(outputFile)}
NewSuccess == {successFile[k] : k \in (startLens[2] + 1)..Len(successFile)}

\* C1: a run that follows a run which reached the end of main, on the same
\* input and the logs as left, appends no success-index entry and no output-log
\* record for a repo_id that was in the success-index when it started.
C1_Idempotent ==
    (run >= 2 /\ prevNormal) =>
        /\ \A r \in NewOutput : r.repo_id \notin startIds
        /\ \A r \in NewSuccess : r.repo_id \notin startIds

\* C2: after a run that was killed anywhere or that ended, the next run never
\* dispatches an item whose repo_id is in the success-index at its start.
C2_NoRefetch ==
    (run >= 2 /\ mainpc = "collect") => Ids(repos_to_process) \cap startIds = {}

\* C3: at the end of the critical section of every process_repo call, exactly
\* one record was appended to exactly one of output log and failed-index: the
\* call's record, to the output log when success, else to the failed-index.
C3_ExactlyOneAppend ==
    \A t \in Tasks :
        tpc[t] = "unlock" =>
            IF tres[t].success
            THEN /\ Len(outputFile) = csBase[1] + 1
                 /\ Len(failedFile) = csBase[3]
                 /\ Last(outputFile) = tres[t]
            ELSE /\ Len(outputFile) = csBase[1]
                 /\ Len(failedFile) = csBase[3] + 1
                 /\ Last(failedFile) = tres[t]

C3_Witness ==
    \E t, u \in Tasks :
        /\ tpc[t] = "unlock" /\ ~tres[t].success
        /\ tpc[u] = "finished" /\ tres[u].success

\* C6: no repo_id occurs in more than one entry of the success-index.
C6_WriteOnce == NoDupIds(successFile)

\* A call that succeeded for a repo_id already in the in-memory set has left
\* its critical section.
C6_Witness ==
    \E t \in Tasks :
        /\ tpc[t] = "finished"
        /\ tres[t].success
        /\ tres[t].repo_id \in startIds
        /\ Len(successFile) >= 2

\* C7: a call is between taking and releasing file_lock only while it holds
\* it, so at most one call is; and whenever the main thread is at a point where
\* it writes the failed-index (start of main, line 193), no call is.
C7_MutualExclusion ==
    /\ \A t \in Tasks : tpc[t] \in InCritical => file_lock = t
    /\ \A t, u \in Tasks : (tpc[t] \in InCritical /\ tpc[u] \in InCritical) => t = u
    /\ mainpc \in {"idle", "done", "killed", "transition"} =>
           /\ file_lock = 0
           /\ \A t \in Tasks : tpc[t] \notin InPool

C7_Witness ==
    \E t, u \in Tasks : tpc[t] = "wrote_out" /\ tpc[u] = "built"

\* C9: within a round no repo_id is dispatched twice, and the repo_ids of a
\* round that follows another are among those of the round before.
C9_RoundsNeverGrow ==
    Running =>
        /\ NoDupIds(repos_to_process)
        /\ (round >= 2 \/ (round >= 1 /\ mainpc = "loop")) =>
               /\ Ids(repos_to_process) \subseteq prevIds
               /\ Len(repos_to_process) <= Cardinality(prevIds)

C9_Witness ==
    /\ run = 2
    /\ round >= 2
    /\ mainpc = "collect"
    /\ Len(repos_to_process) = 1
    /\ Cardinality(prevIds) = 2

Dispatched(i) == mainpc = "collect" /\ i \in Ids(repos_to_process)
Built(i) == {t \in Tasks : tres[t] # NoResult /\ tres[t].repo_id = i}
PermanentError(i) == \A t \in Built(i) : tres[t].fail_reason = "status_500"
FailedInRound(i) == \E t \in Built(i) : ~tres[t].success

\* C8 as claimed: an item whose every attempt ends in the permanent error
\* status_500 is dispatched in only finitely many rounds.
C8_BoundedRetry ==
    \A i \in RepoIds : ([]PermanentError(i)) => <>[](~Dispatched(i))

\* C8 as amended: there is no bound. When a round in which an item failed is
\* over, main goes on (unless the process is killed) to a round whose work list
\* holds the item again, and main ends only with an empty work list or after a
\* round without any failure.
C8_RetriedWithoutBound ==
    /\ [][\A i \in RepoIds :
            (mainpc = "transition" /\ FailedInRound(i) /\ mainpc' # "killed")
                => (mainpc' = "loop" /\ i \in Ids(repos_to_process'))]_vars
    /\ [][(mainpc = "loop" /\ repos_to_process # <<>> /\ mainpc' # "killed")
                => (mainpc' = "collect" /\ repos_to_process' = repos_to_process)]_vars
    /\ [](mainpc = "done" => failed_next_round = <<>>)

\* An item fails with status_500 in a round that follows RETRY_LIMIT - 1
\* rounds in which it failed.
C8_Witness ==
    /\ round >= RETRY_LIMIT
    /\ mainpc = "transition"
    /\ \E i \in RepoIds : FailedInRound(i) /\ PermanentError(i)

InfoFailed == "_error" \in DOMAIN p_info
ReadmeFailed == "_error" \in DOMAIN p_readme
ReadmeFatal == ReadmeFailed /\ p_readme._error # "not_found"

\* C4: the record of a process_repo call has success exactly when the info
\* resolution gave no error and the readme resolution gave no error or the
\* error not_found, and it has a fail_reason exactly when success is false.
C4_SuccessRule ==
    p_pc = "built" =>
        /\ tres[1].success <=> (~InfoFailed /\ ~ReadmeFatal)
        /\ (tres[1].fail_reason # None) <=> ~tres[1].success

C4_Witness ==
    /\ p_pc = "built"
    /\ ~InfoFailed
    /\ p_readme = Err("not_found")
    /\ tres[1].success
    /\ tres[1].readme_text = None

\* C5: when both resolutions fail (the readme's with an error other than
\* not_found), the record's fail_reason is the info resolution's.
C5_InfoReasonFirst ==
    (p_pc = "built" /\ InfoFailed /\ ReadmeFatal) =>
        tres[1].fail_reason = p_info._error

AllRaised == \A k \in 1..Len(f_trace) : f_trace[k] = "exception"
Backoffs == [k \in 1..RETRY_LIMIT |-> 2 ^ (k - 1)]

\* C10: a fetch_json call whose every attempt raised has made RETRY_LIMIT + 1
\* attempts, has slept 2^k seconds before retry k + 1, and has returned the
\* tag exception_<type>: <message> of the last exception.
C10_AllAttemptsRaise ==
    (f_ret # NoResult /\ AllRaised) =>
        /\ Len(f_trace) = RETRY_LIMIT + 1
        /\ f_sleeps = Backoffs
        /\ f_ret = PyDict(Err("exception_" \o f_last.code \o ": " \o f_last.msg))

C10_Witness ==
    /\ f_ret = PyDict(Err("exception_ConnectionError: m"))
    /\ AllRaised
    /\ Len(f_trace) = RETRY_LIMIT + 1
    /\ p_pc = "readme"

Exhausted == f_trace # <<>> /\ Last(f_trace) = "exhausted"
SleptBefore(k) == Sum(SubSeq(f_sleeps, 1, k - 1))

\* C11: a fetch_json call whose latest attempt got 403 or 429 with
\* X-RateLimit-Remaining "0" and a reset timestamp has slept, in that attempt,
\* the larger of reset - now + 5 and 10 seconds, has returned
\* rate_limit_or_forbidden_<code>, and made no attempt after it, whatever the
\* number of retries it had left.
C11_ExhaustedQuota ==
    /\ \A k \in 1..(Len(f_trace) - 1) : f_trace[k] # "exhausted"
    /\ Exhausted =>
          LET slept == Last(f_sleeps)
              wait == ParseInt(f_last.reset) - (StartTime + SleptBefore(Len(f_sleeps))) + 5
          IN /\ slept >= 10
             /\ slept >= wait
             /\ slept \in {10, wait}
             /\ f_ret = PyDict(Err("rate_limit_or_forbidden_" \o f_last.code))
             /\ Len(f_sleeps) = f_retry + 1

\* The quota is exhausted at the first attempt, with a reset time in the past.
C11_Witness ==
    /\ Exhausted
    /\ f_retry = 0
    /\ ParseInt(f_last.reset) < StartTime
    /\ f_sleeps = <<10>>
    /\ f_ret = PyDict(Err("rate_limit_or_forbidden_429"))

\* C12: an attempt that got 404, or a status other than 200, 403 and 429, is
\* the last of its fetch_json call: the call sleeps nothing after it (its
\* sleeps are the back-offs of the attempts before) and returns not_found for
\* 404 and status_<code> otherwise.
C12_NoRetryOnStatus ==
    \A k \in 1..Len(f_trace) :
        f_trace[k] \in {"not_found", "other"} =>
            /\ k = Len(f_trace)
            /\ f_sleeps = SubSeq(Backoffs, 1, k - 1)
            /\ f_ret = PyDict(Err(IF f_trace[k] = "not_found" THEN "not_found"
                                  ELSE "status_" \o f_last.code))

\* A 404 after two attempts that were retried.
C12_Witness ==
    /\ Len(f_trace) = 3
    /\ Last(f_trace) = "not_found"
    /\ f_sleeps = <<1, 2>>
    /\ f_ret = PyDict(Err("not_found"))

Transient == \A k \in 1..Len(f_trace) : f_trace[k] \in {"exception", "limited"}

\* C19: a fetch_json call whose attempts so far each raised or got 403/429
\* without exhausted quota has made at most RETRY_LIMIT + 1 attempts, has
\* returned once it has made that many and not before, and has returned
\* rate_limit_or_forbidden_<code> when the last of them got 403/429.
C19_SharedRetryBudget ==
    Transient =>
        /\ Len(f_trace) <= RETRY_LIMIT + 1
        /\ (f_ret # NoResult) <=> (Len(f_trace) = RETRY_LIMIT + 1)
        /\ (f_ret # NoResult /\ Last(f_trace) = "limited") =>
               f_ret = PyDict(Err("rate_limit_or_forbidden_" \o f_last.code))

\* Both kinds used up the budget together, and a 403 came last.
C19_Witness ==
    /\ f_trace = <<"exception", "limited", "exception", "limited">>
    /\ f_ret = PyDict(Err("rate_limit_or_forbidden_403"))

\* C14: no process_repo call ends by an exception of get_repo_info or
\* get_readme: whatever fetch_json returned (any status, any headers, any
\* exception, a 200 whose body is empty, lacks fields or is not a JSON
\* object), each resolver returns a value and process_repo returns a record.
C14_NoLayerRaises == p_pc # "raised" /\ tpc # <<"raised">>

IsPrefix(s, t) == Len(s) <= Len(t) /\ SubSeq(t, 1, Len(s)) = s

\* C13: in every step, of main and of its workers and from one run to the
\* next, the output log and the success-index keep what they held as a prefix
\* of what they hold afterwards.
C13_AppendOnly ==
    [][IsPrefix(outputFile, outputFile') /\ IsPrefix(successFile, successFile')]_vars

\* A second run has appended to both logs after what the first run left.
C13_Witness ==
    /\ run = 2
    /\ startLens[1] >= 1
    /\ startLens[2] >= 1
    /\ Len(outputFile) > startLens[1]
    /\ Len(successFile) > startLens[2]

\* C16: the step from the start of main to line 176 leaves a work list with
\* exactly one item per repo_id of the input rows not in the success-index and
\* of the failed-index rows not among those; the item is the input row where
\* there is one, else a failed-index row; the failed-index is then empty and
\* no call is submitted.
C16_SchedulerInit ==
    [][(mainpc \in {"idle", "done", "killed"} /\ mainpc' = "loop") =>
          LET pending == {r \in Range(input) : r.repo_id \notin Ids(successFile)}
              pendingIds == {r.repo_id : r \in pending}
              failedIds == Ids(failedFile) \ pendingIds
          IN /\ Ids(repos_to_process') = pendingIds \cup failedIds
             /\ NoDupIds(repos_to_process')
             /\ \A item \in Range(repos_to_process') :
                    IF item.repo_id \in pendingIds
                    THEN item \in pending
                    ELSE item \in Range(failedFile)
             /\ failedFile' = <<>>
             /\ tpc' = <<>>]_vars

\* A run starts with an input row that is pending and a failed-index row of
\* a repo_id that is not.
C16_Witness ==
    /\ mainpc = "loop"
    /\ round = 0
    /\ run = 2
    /\ failedFile = <<>>
    /\ \E j, k \in 1..Len(repos_to_process) :
          /\ repos_to_process[j] \in Range(input)
          /\ repos_to_process[j].repo_id \notin startIds
          /\ repos_to_process[k].repo_id \in startIds

FailedTasks == {t \in Tasks : tres[t] # NoResult /\ ~tres[t].success}

\* C17: when main is at line 191, every call submitted in the round has
\* returned and been collected, and failed_next_round holds the item of every
\* call whose record has success false, once each, and nothing else.
C17_RoundBarrier ==
    mainpc = "transition" =>
        /\ Len(tpc) = Len(repos_to_process)
        /\ \A t \in Tasks :
               /\ tpc[t] = "collected"
               /\ tres[t] # NoResult
               /\ tres[t].repo_id = repos_to_process[t].repo_id
        /\ Range(failed_next_round) = {Item(tres[t]) : t \in FailedTasks}
        /\ Len(failed_next_round) = Cardinality(FailedTasks)
        /\ NoDupIds(failed_next_round)

\* Two calls failed and completed in the order opposite to their submission.
C17_Witness ==
    /\ mainpc = "transition"
    /\ Len(failed_next_round) = 2
    /\ failed_next_round[1].repo_id = repos_to_process[2].repo_id
    /\ failed_next_round[2].repo_id = repos_to_process[1].repo_id

\* C18: when main is between two rounds or has reached its end, the repo_ids
\* of the failed-index are those of the items that failed in the round just
\* completed; at the end of main none of them is in the success-index.
C18_FailedIndexCurrent ==
    ((mainpc = "loop" /\ round >= 1) \/ mainpc = "done") =>
        /\ Ids(failedFile) = Ids(failed_next_round)
        /\ mainpc = "done" => Ids(failedFile) \cap Ids(successFile) = {}

AllSucceed == \A t \in Tasks : tres[t] # NoResult => tres[t].success

\* C20: in a run that is not killed and in which, from some point on, every
\* record built has success, main reaches its end; whenever main is at its
\* end, every repo_id of the work list the run started with is in the
\* success-index and in the output log; and main reaches its end only from
\* line 176 with an empty work list or from line 191 after a round without
\* failure.
C20_EventuallyDone ==
    /\ (<>[]AllSucceed /\ [](mainpc # "killed")) => (Running ~> (mainpc = "done"))
    /\ [](mainpc = "done" =>
             /\ startWork \subseteq Ids(successFile)
             /\ startWork \subseteq Ids(outputFile))
    /\ [][(mainpc # "done" /\ mainpc' = "done") =>
             \/ mainpc = "loop" /\ repos_to_process = <<>>
             \/ mainpc = "transition" /\ FailedTasks = {}]_vars

\* Main is at its end after an item failed in two rounds and then succeeded.
C20_Witness ==
    /\ mainpc = "done"
    /\ round >= 3
    /\ startWork = {"1", "2"}
    /\ startWork \subseteq Ids(successFile)

TopicSet(k) == parse_topics(repositories[k].topics)
Analysed == 1..Len(repositories)

\* C15: the stats analyze_dataset returns have unique_topics_count equal to
\* the size of the union of the records' topic sets, repositories_with_topics
\* equal to the number of records with a non-empty topic set,
\* topic_frequency[t] equal to the number of records whose topic set holds t,
\* and repositories_with_topics + repositories_without_topics equal to
\* total_repositories, the number of records.
C15_AggregatorCounts ==
    a_pc = "done" =>
        LET union == UNION {TopicSet(k) : k \in Analysed}
        IN /\ stats.unique_topics_count = Cardinality(union)
           /\ stats.repositories_with_topics =
                  Cardinality({k \in Analysed : TopicSet(k) # {}})
           /\ DOMAIN stats.topic_frequency = union
           /\ \A t \in union :
                  stats.topic_frequency[t] =
                      Cardinality({k \in Analysed : t \in TopicSet(k)})
           /\ stats.repositories_with_topics + stats.repositories_without_topics
                  = stats.total_repositories
           /\ stats.total_repositories = Len(repositories)

\* The records with the topic sets {a, b}, {a} and {}.
C15_Witness ==
    /\ a_pc = "done"
    /\ [k \in Analysed |-> repositories[k].topics] = <<"['a', 'b']", "['a']", "">>
    /\ stats.unique_topics_count = 2
    /\ stats.repositories_with_topics = 2
    /\ stats.topic_frequency = ("a" :> 2 @@ "b" :> 1)

Alive == mainpc \in {"loop", "collect", "transition", "done"}
RunOutput == SubSeq(outputFile, startLens[1] + 1, Len(outputFile))

\* C21: while the process lives and no call holds file_lock,
\* success_repo_ids is the set of repo_ids of the success-index, and it holds
\* the repo_id of every record this run appended to the output log; a record
\* of this run whose repo_id is not in the success-index is there only while
\* the call that appended it is between lines 140 and 141.
C21_IndexConsistency ==
    Alive =>
        /\ file_lock = 0 =>
               /\ success_repo_ids = Ids(successFile)
               /\ Ids(RunOutput) \subseteq success_repo_ids
        /\ ~(Ids(RunOutput) \subseteq Ids(successFile)) =>
               /\ file_lock # 0
               /\ tpc[file_lock] = "wrote_out"

\* No call holds file_lock: one call of the round has made both appends and
\* released it, another has its record built and waits for it.
C21_Witness ==
    /\ mainpc = "collect"
    /\ file_lock = 0
    /\ RunOutput # <<>>
    /\ success_repo_ids # startIds
    /\ \E t, u \in Tasks :
          /\ tpc[t] = "finished"
          /\ tres[t].success
          /\ tpc[u] = "built"

\* C22: the records one run appends to the output log have distinct
\* repo_ids, and no item is dispatched, or waits for its append, in a run
\* that has already appended a record for its repo_id.
C22_OneRecordPerRun ==
    /\ NoDupIds(RunOutput)
    /\ mainpc = "loop" => Ids(repos_to_process) \cap Ids(RunOutput) = {}
    /\ mainpc = "collect" =>
           \A t \in Tasks :
               tpc[t] \in {"queued", "built", "locked"} =>
                   repos_to_process[t].repo_id \notin Ids(RunOutput)

\* One item succeeded in round 1, the other failed there and succeeded in
\* round 2.
C22_Witness ==
    /\ mainpc = "done"
    /\ run = 1
    /\ round = 2
    /\ Len(RunOutput) = 2
    /\ Len(repos_to_process) = 1

====
